---- MODULE Spec2Model ----
(***************************************************************************)
(* Time-partitioned indexing layer over a search engine                    *)
(* (storage/seachindex/elasticsearch/aws-opensearch.go, the SearchIndex    *)
(* with the template cache, lines 333-825, and SearchDateRange of the     *)
(* same type, lines 128-166).                                              *)
(*                                                                         *)
(* One SearchIndex instance is shared by the caller goroutines Procs.      *)
(* Every engine request is one step whose outcome the engine chooses:      *)
(* "ok", "transport" (the client returns err != nil) or "status" (the      *)
(* client returns a response with res.IsError()).                          *)
(***************************************************************************)
EXTENDS Integers, Sequences, FiniteSets, TLC

VARIABLES
    createdTemplates,   \* SearchIndex.createdTemplates: dataset -> bool
    templatesMutex,     \* SearchIndex.templatesMutex: the holder, or NoProc
    store,              \* engine: the stored documents [index, id, doc]
    visible,            \* engine: the documents searches see (as of the last refresh)
    tmplReq,            \* engine: template-put requests received, per dataset
    tmplOK,             \* engine: template-put requests answered with success
    written,            \* datasets for which a document write request was issued
    calls,              \* calls begun so far, per operation
    pc,                 \* per caller: position in its current call
    op,                 \* per caller: the call and its arguments
    ensureErr,          \* per caller: what ensureIndexTemplate returned
    ret,                \* per caller: what the call returned
    hist,               \* per caller: what the current call has done so far
    wpc,                \* per caller: position of each BulkIndex worker goroutine
    pending,            \* per caller: per worker, the errors it still has to send
    errChan,            \* per caller: the buffered error channel of the BulkIndex call
    lastOK              \* the latest IndexRecord that returned nil, while no other call wrote since

vars == <<createdTemplates, templatesMutex, store, visible, tmplReq, tmplOK,
          written, calls, pc, op, ensureErr, ret, hist, wpc, pending, errChan, lastOK>>

(***************************************************************************)
(* Bounds of the model.                                                    *)
(***************************************************************************)
NumProcs == 2       \* caller goroutines sharing the instance
MaxCalls == 2       \* calls begun in one run
MaxRecords == 3     \* longest records slice handed to BulkIndex (SpecBulk)
MaxShort == 1       \* longest records slice handed to BulkIndex (Spec)
MaxBulkCalls == 1   \* BulkIndex calls begun in one run
MaxRepeat == 1      \* further BulkIndex calls by a caller whose BulkIndex returned nil
MaxRangeCalls == 1  \* SearchDateRange calls begun in one run
MaxHalfDay == 5     \* latest instant of a date-range bound, in half days since the epoch
batchSize == 2      \* BulkIndex's batchSize (1000 in the source), scaled to the model

Procs == 1..NumProcs
NoProc == 0

(***************************************************************************)
(* Names are sequences of hyphen-separated tokens: the dataset "a-b" is    *)
(* <<"a","b">>, and "%s-%s" appends a token.                               *)
(***************************************************************************)
Datasets == {<<"a">>, <<"a", "b">>}
Ids == {<<"id1">>}

(* A time.Time: an instant (half days since the epoch) and the offset of  *)
(* its location (half days east of UTC).                                  *)
ZeroTime == [h |-> 0, z |-> 0]

\* the locations a caller's time.Time may carry: UTC and one east of it
Zones == {0, 1}

\* the startDate and endDate values handed to SearchDateRange
Times == {[h |-> h, z |-> z] : h \in 0..MaxHalfDay, z \in Zones}

\* time.Now(): the wall clock read at a call site, in the process's location (UTC here)
Clock == {1, 2}
TimeNow(clock) == [h |-> clock, z |-> 0]

(* A reflect.Type of a struct field: its Kind, for a slice or array the    *)
(* Kind of its element, and whether it is the type time.Time.              *)
Type(kind, elem, isTime) == [kind |-> kind, elem |-> elem, isTime |-> isTime]
Scalar(kind) == Type(kind, "none", FALSE)
Field(name, type) == [name |-> name, type |-> type]

StringType == Scalar("String")
TimeType == Type("Struct", "none", TRUE)

\* one field of every type json.Marshal accepts
JSONFields ==
    << Field("f01", Scalar("Bool")),
       Field("f02", Scalar("Int")),    Field("f03", Scalar("Int8")),
       Field("f04", Scalar("Int16")),  Field("f05", Scalar("Int32")),
       Field("f06", Scalar("Int64")),
       Field("f07", Scalar("Uint")),   Field("f08", Scalar("Uint8")),
       Field("f09", Scalar("Uint16")), Field("f10", Scalar("Uint32")),
       Field("f11", Scalar("Uint64")), Field("f12", Scalar("Uintptr")),
       Field("f13", Scalar("Float32")), Field("f14", Scalar("Float64")),
       Field("f15", StringType),
       Field("f16", TimeType),
       Field("f17", Type("Struct", "none", FALSE)),
       Field("f18", Type("Slice", "String", FALSE)),
       Field("f19", Type("Slice", "Int", FALSE)),
       Field("f20", Type("Array", "String", FALSE)),
       Field("f21", Scalar("Map")),
       Field("f22", Scalar("Ptr")),
       Field("f23", Scalar("Interface")) >>

\* fields of the types json.Marshal rejects
UnsupportedFields ==
    << Field("f24", Scalar("Complex64")), Field("f25", Scalar("Complex128")),
       Field("f26", Scalar("Chan")),      Field("f27", Scalar("Func")),
       Field("f28", Scalar("UnsafePointer")) >>

(* Caller records. kind: what reflect sees of the value; fields: the      *)
(* declared fields of a struct; name, times: the values of its string      *)
(* field and of its time.Time fields, in declaration order; ser:           *)
(* json.Marshal accepts it.                                                *)
Records ==
    { [kind |-> "struct", name |-> "n1", times |-> <<[h |-> 4, z |-> 0], [h |-> 6, z |-> 0]>>,
       ser |-> TRUE,
       fields |-> <<Field("name", StringType), Field("createdAt", TimeType),
                    Field("updatedAt", TimeType)>>],
      [kind |-> "struct", name |-> "n2", times |-> <<>>, ser |-> TRUE,
       fields |-> <<Field("name", StringType)>>],
      [kind |-> "struct", name |-> "n2", times |-> <<>>, ser |-> FALSE,
       fields |-> <<Field("name", StringType), Field("done", Scalar("Chan"))>>],
      [kind |-> "map",    name |-> "n1", times |-> <<>>, ser |-> TRUE, fields |-> <<>>] }

(* The values schema inference is studied on: structs (and a pointer to    *)
(* one) with a field of every type, and the values that are no struct.     *)
SchemaRecords ==
    { [kind |-> "struct", name |-> "n1", times |-> <<>>, ser |-> TRUE, fields |-> JSONFields],
      [kind |-> "ptr",    name |-> "n1", times |-> <<>>, ser |-> TRUE, fields |-> JSONFields],
      [kind |-> "struct", name |-> "n1", times |-> <<>>, ser |-> FALSE,
       fields |-> JSONFields \o UnsupportedFields],
      [kind |-> "map",    name |-> "n1", times |-> <<>>, ser |-> TRUE,  fields |-> <<>>],
      [kind |-> "slice",  name |-> "n1", times |-> <<>>, ser |-> FALSE, fields |-> <<>>],
      [kind |-> "string", name |-> "n1", times |-> <<>>, ser |-> FALSE, fields |-> <<>>],
      [kind |-> "nilptr", name |-> "n1", times |-> <<>>, ser |-> TRUE,  fields |-> <<>>],
      [kind |-> "nil",    name |-> "n1", times |-> <<>>, ser |-> TRUE,  fields |-> <<>>] }

\* the JSON keys of the time.Time fields
TimeFieldNames == <<"createdAt", "updatedAt">>

\* the records slices handed to BulkIndex: up to MaxRecords records where the workers are
\* studied, up to MaxShort where BulkIndex runs next to other calls
RecordSeqs == UNION { [1..n -> Records] : n \in 0..MaxRecords }
ShortRecordSeqs == UNION { [1..n -> Records] : n \in 0..MaxShort }

EngineOutcomes == {"ok", "transport", "status"}
OpNames == {"IndexRecord", "BulkIndex", "Search", "SearchDateRange"}

NoErr == "none"
NoFilter == [type |-> "none", v |-> <<>>]
NoOp == [name |-> "none", d |-> <<>>, id |-> <<>>, recs |-> <<>>, filter |-> NoFilter,
     start |-> ZeroTime, end |-> ZeroTime]
NoRet == [tag |-> "none", errs |-> <<>>, results |-> <<>>]
RetNil == [tag |-> "nil", errs |-> <<>>, results |-> <<>>]
RetErr(errs) == [tag |-> "err", errs |-> errs, results |-> <<>>]
RetResults(rs) == [tag |-> "results", errs |-> <<>>, results |-> rs]
Err(kind, at, batch) == [kind |-> kind, at |-> at, batch |-> batch]

NoHist == [sawCached |-> FALSE, inferred |-> FALSE, tmplReqs |-> 0, writes |-> 0,
           writeFailed |-> FALSE,
           refreshes |-> 0, refreshFailed |-> FALSE, workersDoneAtRefresh |-> FALSE,
           submitted |-> {}, reported |-> {}, started |-> <<>>,
           indexName |-> <<>>, target |-> <<>>, clock |-> 0, routed |-> {},
           clause |-> "none", queries |-> 0, sortRejected |-> FALSE,
           mappings |-> <<>>, hits |-> <<>>, ranges |-> <<>>,
           again |-> FALSE, before |-> {}, first |-> 0,
           prev |-> [valid |-> FALSE, d |-> <<>>, id |-> <<>>, index |-> <<>>, doc |-> <<>>],
           only |-> FALSE]
NoLast == [valid |-> FALSE, d |-> <<>>, id |-> <<>>, index |-> <<>>, doc |-> <<>>]

(***************************************************************************)
(* Pure functions of the source.                                           *)
(***************************************************************************)
\* date.Format("2006.01.02"): the calendar day of t in t's own location
FormatDay(t) == ToString((t.h + t.z) \div 2)

\* getIndexName: fmt.Sprintf("%s-%s", baseIndexName, date.Format("2006.01.02"))
getIndexName(baseIndexName, date) == Append(baseIndexName, FormatDay(date))

\* if v.Kind() == reflect.Ptr { v = v.Elem() }; v.Kind() == reflect.Struct
IsStruct(record) == record.kind \in {"struct", "ptr"}

generateMappingsOK_Any(record) == TRUE

\* generateMappings fails unless the record is a struct (or a pointer to one)
generateMappingsOK(record) == IsStruct(record)

\* getOpenSearchType: the switch over t.Kind(), "text" for whatever no case returns for
getOpenSearchType(t) ==
    CASE t.kind = "Bool" -> "boolean"
      [] t.kind \in {"Int", "Int8", "Int16", "Int32", "Int64",
                     "Uint", "Uint8", "Uint16", "Uint32", "Uint64"} -> "long"
      [] t.kind \in {"Float32", "Float64"} -> "double"
      [] t.kind = "String" -> "keyword"
      [] t.kind = "Struct" /\ t.isTime -> "date"
      [] t.kind = "Slice" /\ t.elem = "String" -> "keyword"
      [] OTHER -> "text"

\* the entry generateMappings makes for a field: map[string]string{"type": fieldType}
FieldMapping(t) == [type |-> getOpenSearchType(t)]

\* generateMappings: one entry per declared field, under its JSON name
generateMappings(record) ==
    [n \in {record.fields[k].name : k \in DOMAIN record.fields} |->
        FieldMapping(record.fields[CHOOSE k \in DOMAIN record.fields :
                                      record.fields[k].name = n].type)]

getTimeField_Last(record) ==
    IF IsStruct(record) /\ record.times # <<>>
    THEN <<record.times[Len(record.times)], TRUE>>
    ELSE <<ZeroTime, FALSE>>

\* getTimeField: the first time.Time field of a struct, else (zero, false)
getTimeField(record) ==
    IF IsStruct(record) /\ record.times # <<>> THEN <<record.times[1], TRUE>>
    ELSE <<ZeroTime, FALSE>>

\* the timestamp IndexRecord and BulkIndex route by
Timestamp(record, clock) ==
    IF getTimeField(record)[2] THEN getTimeField(record)[1] ELSE TimeNow(clock)

prepareDocumentOK_Always(record) == TRUE

\* prepareDocument: json.Marshal then json.Unmarshal into a map
prepareDocumentOK(record) == record.ser

prepareDocument(record) ==
    [f \in (IF record.kind \in {"nil", "nilptr"} THEN {} ELSE {"name"})
           \cup {TimeFieldNames[k] : k \in DOMAIN record.times} |->
        IF f = "name" THEN <<record.name>>
        ELSE LET t == record.times[CHOOSE k \in DOMAIN record.times : TimeFieldNames[k] = f]
             IN  <<ToString(t.h), ToString(t.z)>>]

\* engine: the wildcard pattern "<base>-*" covers every index whose name starts with "<base>-"
PatternCovers(base, index) ==
    /\ Len(index) > Len(base)
    /\ SubSeq(index, 1, Len(base)) = base

\* the elements of a sequence
Range(s) == {s[k] : k \in DOMAIN s}

\* engine: an index request stores the document under (index, id), replacing an earlier one
Put(st, index, id, doc) ==
    {e \in st : ~(e.index = index /\ e.id = id)} \cup {[index |-> index, id |-> id, doc |-> doc]}

\* engine: a refresh makes the stored documents of the named indices visible
Refreshed(indices) ==
    {e \in visible : e.index \notin indices} \cup {e \in store : e.index \in indices}

\* engine: the indices that exist
AllIndices == {e.index : e \in store \cup visible}

TypeOK ==
    /\ createdTemplates \in [Datasets -> BOOLEAN]
    /\ templatesMutex \in Procs \cup {NoProc}
    /\ calls \in [OpNames -> 0..MaxCalls]

Init ==
    /\ createdTemplates = [d \in Datasets |-> FALSE]
    /\ templatesMutex = NoProc
    /\ store = {}
    /\ visible = {}
    /\ tmplReq = [d \in Datasets |-> 0]
    /\ tmplOK = [d \in Datasets |-> 0]
    /\ written = {}
    /\ calls = [n \in OpNames |-> 0]
    /\ pc = [p \in Procs |-> "idle"]
    /\ op = [p \in Procs |-> NoOp]
    /\ ensureErr = [p \in Procs |-> NoErr]
    /\ ret = [p \in Procs |-> NoRet]
    /\ hist = [p \in Procs |-> NoHist]
    /\ wpc = [p \in Procs |-> <<>>]
    /\ pending = [p \in Procs |-> <<>>]
    /\ errChan = [p \in Procs |-> <<>>]
    /\ lastOK = NoLast

engineVars == <<store, visible, tmplReq, tmplOK, written>>
bulkVars == <<wpc, pending, errChan>>

(***************************************************************************)
(* A caller begins a call.                                                 *)
(***************************************************************************)
CanCall(p, name) ==
    /\ pc[p] \in {"idle", "done"}
    /\ calls["IndexRecord"] + calls["BulkIndex"] + calls["Search"]
         + calls["SearchDateRange"] < MaxCalls
    /\ name = "BulkIndex" => calls[name] < MaxBulkCalls
    /\ name = "SearchDateRange" => calls[name] < MaxRangeCalls

Begin(p, o, h) ==
    /\ calls' = [calls EXCEPT ![o.name] = @ + 1]
    /\ op' = [op EXCEPT ![p] = o]
    /\ ensureErr' = [ensureErr EXCEPT ![p] = NoErr]
    /\ hist' = [hist EXCEPT ![p] = h]
    /\ wpc' = [wpc EXCEPT ![p] = <<>>]
    /\ pending' = [pending EXCEPT ![p] = <<>>]
    /\ errChan' = [errChan EXCEPT ![p] = <<>>]

CallIndexRecord(p, d, id, record) ==
    /\ CanCall(p, "IndexRecord")
    /\ Begin(p, [name |-> "IndexRecord", d |-> d, id |-> id, recs |-> <<record>>, filter |-> NoFilter,
     start |-> ZeroTime, end |-> ZeroTime],
             NoHist)
    /\ pc' = [pc EXCEPT ![p] = "ensure"]
    /\ ret' = [ret EXCEPT ![p] = NoRet]
    /\ UNCHANGED <<createdTemplates, templatesMutex, engineVars, lastOK>>

(***************************************************************************)
(* ensureIndexTemplate: lock, check the flag, and when it is unset start    *)
(* createIndexTemplate (generateMappings, then the template-put request).  *)
(***************************************************************************)
TemplateAlreadyCreated_Never(d) == FALSE

\* if s.createdTemplates[baseIndexName] { return nil }
TemplateAlreadyCreated(d) == createdTemplates[d]

HeldDuringCreate_Released(p) == NoProc

\* defer s.templatesMutex.Unlock(): the mutex stays held while the request is in flight
HeldDuringCreate(p) == p

ensureIndexTemplate(p) ==
    /\ pc[p] = "ensure"
    /\ templatesMutex = NoProc
    /\ LET d == op[p].d
           record == op[p].recs[1]
       IN  IF TemplateAlreadyCreated(d)
           THEN /\ pc' = [pc EXCEPT ![p] = "ensured"]
                /\ hist' = [hist EXCEPT ![p].sawCached = TRUE]
                /\ UNCHANGED <<templatesMutex, tmplReq, ensureErr>>
           ELSE IF ~generateMappingsOK(record)
           THEN /\ pc' = [pc EXCEPT ![p] = "ensured"]
                /\ ensureErr' = [ensureErr EXCEPT ![p] = "mappings"]
                /\ hist' = [hist EXCEPT ![p].inferred = TRUE]
                /\ UNCHANGED <<templatesMutex, tmplReq>>
           ELSE /\ pc' = [pc EXCEPT ![p] = "tmplInFlight"]
                /\ templatesMutex' = HeldDuringCreate(p)
                /\ tmplReq' = [tmplReq EXCEPT ![d] = @ + 1]
                /\ hist' = [hist EXCEPT ![p].inferred = TRUE, ![p].tmplReqs = @ + 1,
                                        ![p].mappings = generateMappings(record)]
                /\ UNCHANGED ensureErr
    /\ UNCHANGED <<createdTemplates, store, visible, tmplOK, written, calls, op, ret,
                   bulkVars, lastOK>>

FlagAfterCreate_Always(d, outcome) == TRUE

FlagAfterCreate_OnAnyResponse(d, outcome) ==
    IF outcome \in {"ok", "status"} THEN TRUE ELSE createdTemplates[d]

\* createIndexTemplate returns nil only for a success response; then the flag is set
FlagAfterCreate(d, outcome) == IF outcome = "ok" THEN TRUE ELSE createdTemplates[d]

createIndexTemplateResponse(p, outcome) ==
    /\ pc[p] = "tmplInFlight"
    /\ LET d == op[p].d
       IN  /\ createdTemplates' = [createdTemplates EXCEPT ![d] = FlagAfterCreate(d, outcome)]
           /\ tmplOK' = [tmplOK EXCEPT ![d] = IF outcome = "ok" THEN @ + 1 ELSE @]
           /\ ensureErr' = [ensureErr EXCEPT ![p] = IF outcome = "ok" THEN NoErr ELSE outcome]
    /\ templatesMutex' = IF templatesMutex = p THEN NoProc ELSE templatesMutex
    /\ pc' = [pc EXCEPT ![p] = "ensured"]
    /\ UNCHANGED <<store, visible, tmplReq, written, calls, op, ret, hist, bulkVars, lastOK>>

(***************************************************************************)
(* IndexRecord after ensureIndexTemplate: the document write, then the     *)
(* refresh of the partition.                                               *)
(***************************************************************************)
EnsureFailed_Ignored(p) == FALSE

\* if err := s.ensureIndexTemplate(...); err != nil { return ... }
EnsureFailed(p) == ensureErr[p] # NoErr

WriteFailed_TransportOnly(outcome) == outcome = "transport"

\* if err != nil { return ... } and if res.IsError() { return ... } after req.Do
WriteFailed(outcome) == outcome # "ok"

IndexRecordWrite(p, outcome, clock) ==
    /\ pc[p] = "ensured"
    /\ op[p].name = "IndexRecord"
    /\ LET d == op[p].d
           record == op[p].recs[1]
           indexName == getIndexName(d, Timestamp(record, clock))
       IN  IF EnsureFailed(p)
           THEN /\ outcome = "ok"      \* no request is made and no clock is read
                /\ clock = 1
                /\ ret' = [ret EXCEPT ![p] = RetErr(<<Err("ensure", 0, 0)>>)]
                /\ pc' = [pc EXCEPT ![p] = "done"]
                /\ UNCHANGED <<store, written, hist, lastOK>>
           ELSE IF ~prepareDocumentOK(record)
           THEN /\ outcome = "ok"
                /\ clock = 1
                /\ ret' = [ret EXCEPT ![p] = RetErr(<<Err("prepare", 0, 0)>>)]
                /\ pc' = [pc EXCEPT ![p] = "done"]
                /\ UNCHANGED <<store, written, hist, lastOK>>
           ELSE /\ getTimeField(record)[2] => clock = 1    \* the clock's value is dropped
                /\ hist' = [hist EXCEPT ![p].writes = @ + 1, ![p].indexName = indexName,
                                        ![p].clock = clock,
                                        ![p].writeFailed = (outcome # "ok")]
                /\ written' = written \cup {d}
                /\ lastOK' = NoLast
                /\ store' = IF outcome = "ok"
                            THEN Put(store, indexName, op[p].id, prepareDocument(record))
                            ELSE store
                /\ IF WriteFailed(outcome)
                   THEN /\ ret' = [ret EXCEPT ![p] = RetErr(<<Err(outcome, 0, 0)>>)]
                        /\ pc' = [pc EXCEPT ![p] = "done"]
                   ELSE /\ pc' = [pc EXCEPT ![p] = "refresh"]
                        /\ UNCHANGED ret
    /\ UNCHANGED <<createdTemplates, templatesMutex, visible, tmplReq, tmplOK, calls, op,
                   ensureErr, bulkVars>>

\* the refresh request: only a transport error is looked at, the response is dropped
RefreshReturn(outcome) ==
    IF outcome = "transport" THEN RetErr(<<Err("refresh", 0, 0)>>) ELSE RetNil

IndexRecordRefresh(p, outcome) ==
    /\ pc[p] = "refresh"
    /\ LET d == op[p].d
           record == op[p].recs[1]
       IN  /\ visible' = IF outcome = "ok" THEN Refreshed({hist[p].indexName}) ELSE visible
           /\ ret' = [ret EXCEPT ![p] = RefreshReturn(outcome)]
           /\ hist' = [hist EXCEPT ![p].refreshes = @ + 1,
                                   ![p].refreshFailed = (outcome # "ok")]
           /\ lastOK' = IF RefreshReturn(outcome) = RetNil
                        THEN [valid |-> TRUE, d |-> d, id |-> op[p].id,
                              index |-> hist[p].indexName, doc |-> prepareDocument(record)]
                        ELSE NoLast
    /\ pc' = [pc EXCEPT ![p] = "done"]
    /\ UNCHANGED <<createdTemplates, templatesMutex, store, tmplReq, tmplOK, written,
                   calls, op, ensureErr, bulkVars>>

(***************************************************************************)
(* BulkIndex.                                                              *)
(***************************************************************************)
EmptyResult_Error == RetErr(<<Err("empty", 0, 0)>>)

\* if len(records) == 0 { return nil }
EmptyResult == RetNil

CallBulkIndex(p, d, records) ==
    /\ CanCall(p, "BulkIndex")
    /\ Begin(p, [name |-> "BulkIndex", d |-> d, id |-> <<>>, recs |-> records, filter |-> NoFilter,
     start |-> ZeroTime, end |-> ZeroTime],
             NoHist)
    /\ IF Len(records) = 0
       THEN /\ pc' = [pc EXCEPT ![p] = "done"]
            /\ ret' = [ret EXCEPT ![p] = EmptyResult]
       ELSE /\ pc' = [pc EXCEPT ![p] = "ensure"]
            /\ ret' = [ret EXCEPT ![p] = NoRet]
    /\ UNCHANGED <<createdTemplates, templatesMutex, engineVars, lastOK>>

\* batches = (len(records) + batchSize - 1) / batchSize
Batches(n) == (n + batchSize - 1) \div batchSize

\* errChan = make(chan error, batches)
ChanCap(n) == Batches(n)

BatchPositions_FromZero(i, n) ==
    LET start == (i - 1) * batchSize
        end == IF start + batchSize > n THEN n ELSE start + batchSize
    IN  0 .. (end - 1)

\* the positions (0-based) worker i (1-based) walks: start = (i-1)*batchSize up to end
BatchPositions(i, n) ==
    LET start == (i - 1) * batchSize
        end == IF start + batchSize > n THEN n ELSE start + batchSize
    IN  start .. (end - 1)

\* the loop over the batches: one goroutine per batch, whatever has happened so far
BulkIndexDispatch(p) ==
    /\ pc[p] = "ensured"
    /\ op[p].name = "BulkIndex"
    /\ IF EnsureFailed(p)
       THEN /\ ret' = [ret EXCEPT ![p] = RetErr(<<Err("ensure", 0, 0)>>)]
            /\ pc' = [pc EXCEPT ![p] = "done"]
            /\ UNCHANGED <<hist, bulkVars>>
       ELSE LET n == Len(op[p].recs)
            IN  /\ wpc' = [wpc EXCEPT ![p] = [i \in 1..Batches(n) |-> "run"]]
                /\ pending' = [pending EXCEPT ![p] = [i \in 1..Batches(n) |-> <<>>]]
                /\ errChan' = [errChan EXCEPT ![p] = <<>>]
                /\ hist' = [hist EXCEPT ![p].started = [i \in 1..Batches(n) |-> 1],
                                        ![p].ranges = [i \in 1..Batches(n) |->
                                                          BatchPositions(i, n)]]
                /\ pc' = [pc EXCEPT ![p] = "workers"]
                /\ UNCHANGED ret
    /\ UNCHANGED <<createdTemplates, templatesMutex, engineVars, calls, op, ensureErr, lastOK>>

\* the ascending sequence of a set of positions
RECURSIVE Ascending(_)
Ascending(S) ==
    IF S = {} THEN <<>>
    ELSE LET m == CHOOSE x \in S : \A y \in S : x <= y
         IN  <<m>> \o Ascending(S \ {m})

\* the "_id" of the action line: fmt.Sprintf("%s-%d", baseIndexName, j)
BulkId(baseIndexName, j) == Append(baseIndexName, ToString(j))

\* the "_index" of the action line: getIndexName of the timestamp chosen for the record
BulkIndexName(baseIndexName, record, clock) ==
    getIndexName(baseIndexName, Timestamp(record, clock))

\* engine: one bulk request stores the documents of its action lines, in order
RECURSIVE PutAll(_, _, _, _, _)
PutAll(st, d, records, positions, clock) ==
    IF positions = {} THEN st
    ELSE LET j == CHOOSE x \in positions : \A y \in positions : x <= y
             record == records[j + 1]
         IN  PutAll(Put(st, BulkIndexName(d, record, clock), BulkId(d, j),
                        prepareDocument(record)),
                    d, records, positions \ {j}, clock)

\* what a worker does on a record prepareDocument rejects: report it and return
AfterPrepareError(i, j) == <<Err("prepare", j, i)>>

\* the errors one bulk response makes the worker send
ResponseErrors(i, start, outcome, failed) ==
    IF outcome = "ok"
    THEN [k \in 1..Cardinality(failed) |-> Err("item", Ascending(failed)[k], i)]
    ELSE <<Err(outcome, start, i)>>

\* the documents the engine holds in the partitions named for dataset d
StoredFor(d) == {e \in store : SubSeq(e.index, 1, Len(e.index) - 1) = d}

(* BulkIndex called once more by the caller whose BulkIndex on the dataset   *)
(* has just returned nil.                                                   *)
CallBulkIndexAgain(p, records) ==
    /\ pc[p] = "done"
    /\ op[p].name = "BulkIndex"
    /\ ret[p] = RetNil
    /\ op[p].recs # <<>>
    /\ calls["BulkIndex"] < MaxBulkCalls + MaxRepeat
    /\ Begin(p, [op[p] EXCEPT !.recs = records],
             [NoHist EXCEPT !.again = TRUE,
                            !.before = StoredFor(op[p].d),
                            !.first = Len(op[p].recs)])
    /\ IF Len(records) = 0
       THEN /\ pc' = [pc EXCEPT ![p] = "done"]
            /\ ret' = [ret EXCEPT ![p] = EmptyResult]
       ELSE /\ pc' = [pc EXCEPT ![p] = "ensure"]
            /\ ret' = [ret EXCEPT ![p] = NoRet]
    /\ UNCHANGED <<createdTemplates, templatesMutex, engineVars, lastOK>>

(* One worker goroutine up to its first channel send: the loop over its    *)
(* batch, the bulk request and the reading of the response. failed: the    *)
(* positions the engine reports a per-document error for.                  *)
WorkerRun(p, i, outcome, failed, clock) ==
    /\ pc[p] = "workers"
    /\ i \in DOMAIN wpc[p]
    /\ wpc[p][i] = "run"
    /\ LET d == op[p].d
           records == op[p].recs
           positions == BatchPositions(i, Len(records))
           start == (i - 1) * batchSize
           bad == {j \in positions : ~prepareDocumentOK(records[j + 1])}
           firstBad == CHOOSE j \in bad : \A k \in bad : j <= k
           toSend == IF bad # {} THEN AfterPrepareError(i, firstBad)
                     ELSE ResponseErrors(i, start, outcome, failed)
       IN  /\ failed \subseteq positions
           \* inputs that are not read on a path are fixed
           /\ (bad # {} \/ outcome # "ok") => failed = {}
           /\ bad # {} => outcome = "ok" /\ clock = 1
           /\ (\A j \in positions : getTimeField(records[j + 1])[2]) => clock = 1
           /\ IF bad # {}
              THEN UNCHANGED <<store, written, hist, lastOK>>
              ELSE /\ store' = IF outcome \in {"ok", "parse"}
                               THEN PutAll(store, d, records, positions \ failed, clock)
                               ELSE store
                   /\ written' = written \cup {d}
                   /\ lastOK' = NoLast
                   /\ hist' = [hist EXCEPT ![p].writes = @ + 1,
                                           ![p].submitted = @ \cup positions,
                                           ![p].routed = @ \cup
                                               {[pos |-> j, clock |-> clock, batch |-> i,
                                                 index |-> BulkIndexName(d, records[j + 1], clock)]
                                                : j \in positions}]
           /\ pending' = [pending EXCEPT ![p][i] = toSend]
           /\ wpc' = [wpc EXCEPT ![p][i] = IF toSend = <<>> THEN "done" ELSE "send"]
    /\ UNCHANGED <<createdTemplates, templatesMutex, visible, tmplReq, tmplOK, calls, pc,
                   op, ensureErr, ret, errChan>>

\* errChan <- err: possible only while the buffer has room (nobody receives before the drain)
WorkerSend(p, i) ==
    /\ pc[p] = "workers"
    /\ i \in DOMAIN wpc[p]
    /\ wpc[p][i] = "send"
    /\ Len(errChan[p]) < ChanCap(Len(op[p].recs))
    /\ errChan' = [errChan EXCEPT ![p] = Append(@, Head(pending[p][i]))]
    /\ pending' = [pending EXCEPT ![p][i] = Tail(@)]
    /\ hist' = [hist EXCEPT ![p].reported = @ \cup {Head(pending[p][i])}]
    /\ wpc' = [wpc EXCEPT ![p][i] = IF Tail(pending[p][i]) = <<>> THEN "done" ELSE "send"]
    /\ UNCHANGED <<createdTemplates, templatesMutex, engineVars, calls, pc, op, ensureErr,
                   ret, lastOK>>

\* after the drain: with any error collected the call returns before the refresh
RefreshAfterCollect(errors) == errors = <<>>

\* wg.Wait(), close(errChan), the drain, and the refresh of "<base>-*"
BulkIndexCollect(p, outcome) ==
    /\ pc[p] = "workers"
    /\ \A i \in DOMAIN wpc[p] : wpc[p][i] = "done"
    /\ LET d == op[p].d
           errors == errChan[p]
       IN  IF RefreshAfterCollect(errors)
           THEN /\ visible' = IF outcome = "ok"
                              THEN Refreshed({x \in AllIndices : PatternCovers(d, x)})
                              ELSE visible
                /\ ret' = [ret EXCEPT ![p] = IF errors # <<>> THEN RetErr(errors)
                                             ELSE RefreshReturn(outcome)]
                /\ hist' = [hist EXCEPT ![p].refreshes = @ + 1,
                                        ![p].refreshFailed = (outcome # "ok"),
                                        ![p].workersDoneAtRefresh =
                                            \A i \in DOMAIN wpc[p] : wpc[p][i] = "done"]
           ELSE /\ outcome = "ok"
                /\ ret' = [ret EXCEPT ![p] = RetErr(errors)]
                /\ UNCHANGED <<visible, hist>>
    /\ errChan' = [errChan EXCEPT ![p] = <<>>]
    /\ pc' = [pc EXCEPT ![p] = "done"]
    /\ UNCHANGED <<createdTemplates, templatesMutex, store, tmplReq, tmplOK, written,
                   calls, op, ensureErr, wpc, pending, lastOK>>

(***************************************************************************)
(* Search: one request against the pattern "<base>-*".                     *)
(***************************************************************************)
(* The value of the one query parameter (on the field "name"): a string, a  *)
(* []string, a number, a map with bounds, or a bool.                       *)
Filters ==
    { [type |-> "string",  v |-> <<"n1">>],
      [type |-> "string",  v |-> <<"n2">>],
      [type |-> "strings", v |-> <<"n1", "n2">>],
      [type |-> "number",  v |-> <<"7">>],
      [type |-> "pair",    v |-> <<"n1", "n2">>],
      [type |-> "bool",    v |-> <<"true">>] }

\* the query parameters SearchDateRange accepts: map[string]string
StringFilters == {f \in Filters : f.type = "string"}

\* the clause buildSearchQuery emits for a value: "match", whatever the value's type
ClauseOf(value) == "match"

\* buildSearchQuery: one clause per query parameter, under bool.must; it has no error result
buildSearchQuery(filter) ==
    [clause |-> ClauseOf(filter), field |-> "name", type |-> filter.type, value |-> filter.v]

\* engine: a match clause on a string selects the documents whose field holds that string
Matches(doc, query) ==
    /\ query.clause = "match"
    /\ query.type = "string"
    /\ doc[query.field] = query.value

\* engine: the visible documents of the indices the pattern covers that match the query
Hits(base, filter) ==
    {e \in visible : PatternCovers(base, e.index) /\ Matches(e.doc, buildSearchQuery(filter))}

\* the responses the engine may give to a search: those of any request, or the error
\* response that rejects the sort field as unknown
SearchOutcomes == EngineOutcomes \cup {"sort"}

\* the orders in which the engine may list a set of hits
HitOrders(hits) ==
    {s \in [1..Cardinality(hits) -> hits] : \A i, j \in DOMAIN s : i # j => s[i] # s[j]}

\* source["_index"] = index; results[i] = source
Result(hit) ==
    [f \in DOMAIN hit.doc \cup {"_index"} |-> IF f = "_index" THEN hit.index ELSE hit.doc[f]]

Search(p, d, filter, outcome, hits) ==
    /\ CanCall(p, "Search")
    /\ Begin(p, [name |-> "Search", d |-> d, id |-> <<>>, recs |-> <<>>, filter |-> filter,
              start |-> ZeroTime, end |-> ZeroTime],
             [NoHist EXCEPT !.prev = lastOK,
                            !.clause = buildSearchQuery(filter).clause,
                            !.queries = 1,
                            !.sortRejected = (outcome = "sort"),
                            !.hits = IF outcome = "ok" THEN hits ELSE <<>>,
                            !.only = {e \in store : PatternCovers(d, e.index)
                                                    /\ Matches(e.doc, buildSearchQuery(filter))}
                                     = {[index |-> lastOK.index, id |-> lastOK.id, doc |-> lastOK.doc]}])
    /\ hits \in HitOrders(Hits(d, filter))
    /\ outcome # "ok" => hits = CHOOSE s \in HitOrders(Hits(d, filter)) : TRUE
    /\ ret' = [ret EXCEPT ![p] =
                 IF outcome = "ok" THEN RetResults([i \in DOMAIN hits |-> Result(hits[i])])
                 ELSE RetErr(<<Err(outcome, 0, 0)>>)]
    /\ pc' = [pc EXCEPT ![p] = "done"]
    /\ UNCHANGED <<createdTemplates, templatesMutex, engineVars, lastOK>>

(***************************************************************************)
(* SearchDateRange: one request against the daily indices of the range.    *)
(***************************************************************************)
\* d.After(endDate): the instants are compared, whatever the locations
After(d, endDate) == d.h > endDate.h

\* d.AddDate(0, 0, 1): the same wall-clock time one day later, in d's location
AddDay(d) == [d EXCEPT !.h = @ + 2]

\* for d := startDate; !d.After(endDate); d = d.AddDate(0, 0, 1) { append(getIndexName(..., d)) }
RECURSIVE ExpandRange(_, _, _)
ExpandRange(baseIndexName, d, endDate) ==
    IF After(d, endDate) THEN <<>>
    ELSE <<getIndexName(baseIndexName, d)>> \o ExpandRange(baseIndexName, AddDay(d), endDate)

\* buildSearchQuery of SearchDateRange: one match clause per string parameter
buildSearchQueryStrings(filter) ==
    [clause |-> "match", field |-> "name", type |-> "string", value |-> filter.v]

\* engine: a search naming no index runs against every index; otherwise against the named ones
TargetCovers(target, index) == target = <<>> \/ index \in Range(target)

\* engine: the visible documents of the targeted indices that match the query
RangeHits(target, filter) ==
    {e \in visible : TargetCovers(target, e.index)
                     /\ Matches(e.doc, buildSearchQueryStrings(filter))}

\* results[i] = hit["_source"]
RangeResult(hit) == hit.doc

SearchDateRange(p, d, startDate, endDate, filter, outcome, hits) ==
    /\ CanCall(p, "SearchDateRange")
    /\ LET indexNames == ExpandRange(d, startDate, endDate)
       IN  /\ Begin(p, [name |-> "SearchDateRange", d |-> d, id |-> <<>>, recs |-> <<>>,
                        filter |-> filter, start |-> startDate, end |-> endDate],
                    [NoHist EXCEPT !.target = indexNames,
                                   !.hits = IF outcome = "ok" THEN hits ELSE <<>>])
           /\ hits \in HitOrders(RangeHits(indexNames, filter))
           /\ outcome # "ok" => hits = CHOOSE s \in HitOrders(RangeHits(indexNames, filter)) : TRUE
    /\ ret' = [ret EXCEPT ![p] =
                 IF outcome = "ok" THEN RetResults([i \in DOMAIN hits |-> RangeResult(hits[i])])
                 ELSE RetErr(<<Err(outcome, 0, 0)>>)]
    /\ pc' = [pc EXCEPT ![p] = "done"]
    /\ UNCHANGED <<createdTemplates, templatesMutex, engineVars, lastOK>>

IndexRecordRun ==
    \/ \E p \in Procs, o \in EngineOutcomes, c \in Clock : IndexRecordWrite(p, o, c)
    \/ \E p \in Procs, o \in EngineOutcomes : IndexRecordRefresh(p, o)

IndexRecordStep ==
    \/ \E p \in Procs, d \in Datasets, id \in Ids, r \in Records : CallIndexRecord(p, d, id, r)
    \/ IndexRecordRun

TemplateStep ==
    \/ \E p \in Procs : ensureIndexTemplate(p)
    \/ \E p \in Procs, o \in EngineOutcomes : createIndexTemplateResponse(p, o)

BulkIndexStep ==
    \/ \E p \in Procs : BulkIndexDispatch(p)
    \/ \E p \in Procs : \E i \in DOMAIN wpc[p], o \in EngineOutcomes \cup {"parse"}, c \in Clock :
          \E f \in SUBSET BatchPositions(i, Len(op[p].recs)) : WorkerRun(p, i, o, f, c)
    \/ \E p \in Procs : \E i \in DOMAIN wpc[p] : WorkerSend(p, i)
    \/ \E p \in Procs, o \in EngineOutcomes : BulkIndexCollect(p, o)

SearchStep ==
    \E p \in Procs, d \in Datasets, f \in Filters, o \in SearchOutcomes :
       \E hits \in HitOrders(Hits(d, f)) : Search(p, d, f, o, hits)

(* Spec: the callers run IndexRecord, BulkIndex (short slices) and Search  *)
(* side by side on the one instance.                                       *)
Next ==
    \/ IndexRecordStep
    \/ \E p \in Procs, d \in Datasets, rs \in ShortRecordSeqs : CallBulkIndex(p, d, rs)
    \/ TemplateStep
    \/ BulkIndexStep
    \/ SearchStep

Spec == Init /\ [][Next]_vars

(* SpecBulk: BulkIndex calls alone, with slices long enough for several    *)
(* batches and several failures in one batch.                              *)
NextBulk ==
    \/ \E p \in Procs, d \in Datasets, rs \in RecordSeqs : CallBulkIndex(p, d, rs)
    \/ TemplateStep
    \/ BulkIndexStep

SpecBulk == Init /\ [][NextBulk]_vars

\* two successive BulkIndex calls of one caller on one dataset
NextSuccessive ==
    \/ \E p \in Procs, d \in Datasets, rs \in ShortRecordSeqs : CallBulkIndex(p, d, rs)
    \/ \E p \in Procs, rs \in ShortRecordSeqs : CallBulkIndexAgain(p, rs)
    \/ TemplateStep
    \/ BulkIndexStep

SpecSuccessive == Init /\ [][NextSuccessive]_vars

(* SpecRange: SearchDateRange calls on an instance constructed against an   *)
(* engine that already holds documents of both datasets.                   *)
SeededDocs ==
    { [index |-> <<"a", "1">>, id |-> <<"id1">>, doc |-> [name |-> <<"n1">>]],
      [index |-> <<"a", "b", "0">>, id |-> <<"id1">>, doc |-> [name |-> <<"n1">>]] }

InitRange ==
    /\ createdTemplates = [d \in Datasets |-> FALSE]
    /\ templatesMutex = NoProc
    /\ store = SeededDocs
    /\ visible = SeededDocs
    /\ tmplReq = [d \in Datasets |-> 0]
    /\ tmplOK = [d \in Datasets |-> 0]
    /\ written = {}
    /\ calls = [n \in OpNames |-> 0]
    /\ pc = [p \in Procs |-> "idle"]
    /\ op = [p \in Procs |-> NoOp]
    /\ ensureErr = [p \in Procs |-> NoErr]
    /\ ret = [p \in Procs |-> NoRet]
    /\ hist = [p \in Procs |-> NoHist]
    /\ wpc = [p \in Procs |-> <<>>]
    /\ pending = [p \in Procs |-> <<>>]
    /\ errChan = [p \in Procs |-> <<>>]
    /\ lastOK = NoLast

NextRange ==
    \E p \in Procs :
       /\ CanCall(p, "SearchDateRange")
       /\ \E d \in Datasets, t1 \in Times, t2 \in Times, f \in StringFilters, o \in EngineOutcomes :
             \E hits \in HitOrders(RangeHits(ExpandRange(d, t1, t2), f)) :
                SearchDateRange(p, d, t1, t2, f, o, hits)

SpecRange == InitRange /\ [][NextRange]_vars

(* SpecSchema: IndexRecord and BulkIndex calls on one dataset with records  *)
(* of every shape, for the schema inference behind the template.           *)
NextSchema ==
    \/ \E p \in Procs, id \in Ids, r \in SchemaRecords : CallIndexRecord(p, <<"a">>, id, r)
    \/ \E p \in Procs, r \in SchemaRecords : CallBulkIndex(p, <<"a">>, <<r>>)
    \/ TemplateStep
    \/ IndexRecordRun
    \/ BulkIndexStep

SpecSchema == Init /\ [][NextSchema]_vars
(***************************************************************************)
(* Properties.                                                             *)
(***************************************************************************)
IsBulk(p) == op[p].name = "BulkIndex"
Dispatched(p) == IsBulk(p) /\ hist[p].started # <<>>
PastEnsure(p) == pc[p] \in {"ensured", "refresh", "workers", "done"} /\ op[p].name \in {"IndexRecord", "BulkIndex"}
Positions(p) == 0 .. (Len(op[p].recs) - 1)
Unserializable(p) == {j \in Positions(p) : ~prepareDocumentOK(op[p].recs[j + 1])}

\* a worker that has an error to send while the channel's buffer is full: nobody
\* receives before wg.Wait() returns, so the worker stays there
BlockedOnSend(p, i) ==
    /\ pc[p] = "workers"
    /\ wpc[p][i] = "send"
    /\ Len(errChan[p]) >= ChanCap(Len(op[p].recs))

\* C1: no worker goroutine of a BulkIndex call ever blocks on a send to the error
\* channel (so the call returns once the engine requests have returned)
C1_NoWorkerBlocksOnSend ==
    \A p \in Procs : \A i \in DOMAIN wpc[p] : ~BlockedOnSend(p, i)

\* C2: when exactly one record of a BulkIndex call fails serialization, every other
\* record is submitted in a bulk write and the returned error names the failing position
C2_OthersSubmittedAndFailureNamed ==
    \A p \in Procs :
        (pc[p] = "done" /\ Dispatched(p) /\ Cardinality(Unserializable(p)) = 1) =>
            LET j == CHOOSE x \in Unserializable(p) : TRUE
            IN  /\ hist[p].submitted = Positions(p) \ {j}
                /\ ret[p].tag = "err"
                /\ Err("prepare", j, (j \div batchSize) + 1) \in Range(ret[p].errs)

\* C3: every batch is started exactly once and no worker is kept from completing by
\* what the other batches' workers reported
C3_BatchesIndependent ==
    \A p \in Procs :
        pc[p] = "workers" =>
            /\ \A i \in DOMAIN wpc[p] : hist[p].started[i] = 1
            /\ \A i \in DOMAIN wpc[p] :
                 BlockedOnSend(p, i) => \A k \in DOMAIN errChan[p] : errChan[p][k].batch = i

\* C4: a BulkIndex call that dispatched a batch refreshes the dataset's pattern exactly
\* once, after all workers completed, whether or not a worker reported an error
C4_RefreshedOnceAfterWorkers ==
    \A p \in Procs :
        (pc[p] = "done" /\ Dispatched(p)) =>
            /\ hist[p].refreshes = 1
            /\ hist[p].workersDoneAtRefresh

\* C5: BulkIndex returns an error holding every failure the workers reported, and
\* returns nil only when no worker reported a failure and the final refresh did not fail
C5_EveryFailureReturned ==
    \A p \in Procs :
        (pc[p] = "done" /\ Dispatched(p)) =>
            /\ hist[p].reported # {} =>
                 ret[p].tag = "err" /\ hist[p].reported \subseteq Range(ret[p].errs)
            /\ ret[p].tag = "nil" => hist[p].reported = {} /\ ~hist[p].refreshFailed

\* C6: for each dataset at most one template-creation request is answered with success,
\* whatever the interleaving of the callers
C6_AtMostOneCreateSuccess ==
    \A d \in Datasets : tmplOK[d] <= 1

C6_Witness ==
    \E d \in Datasets : \E p, q \in Procs :
        /\ tmplOK[d] = 1
        /\ op[p].name = "IndexRecord" /\ op[q].name = "BulkIndex"
        /\ op[p].d = d /\ op[q].d = d
        /\ PastEnsure(p) /\ PastEnsure(q)
        /\ ~EnsureFailed(p) /\ ~EnsureFailed(q)

\* the step in which caller p's template creation fails (no mapping, or no success response)
CreateFails(p) ==
    \/ pc[p] = "tmplInFlight" /\ pc'[p] = "ensured" /\ tmplOK' = tmplOK
    \/ pc[p] = "ensure" /\ pc'[p] = "ensured" /\ ~createdTemplates[op[p].d]

\* the step in which caller p goes through the check of the flag
PassesCheck(p) == pc[p] = "ensure" /\ pc'[p] # "ensure"

\* C7: a failed template creation returns the error and leaves the dataset's flag unset,
\* and a call that finds the flag unset makes a new creation attempt
C7_FailedCreateIsRetried ==
    [][\A p \in Procs :
          /\ CreateFails(p) =>
               ensureErr'[p] # NoErr /\ ~createdTemplates'[op[p].d]
          /\ (PassesCheck(p) /\ ~createdTemplates[op[p].d]) =>
               /\ hist'[p].inferred
               /\ generateMappingsOK(op[p].recs[1]) =>
                    pc'[p] = "tmplInFlight" /\ tmplReq'[op[p].d] = tmplReq[op[p].d] + 1]_vars

C7_Witness ==
    \E d \in Datasets : \E p \in Procs :
        /\ tmplReq[d] >= 2 /\ tmplOK[d] = 0 /\ ~createdTemplates[d]
        /\ op[p].d = d /\ pc[p] = "done" /\ EnsureFailed(p) /\ ret[p].tag = "err"

\* C8: once a dataset's flag is set it stays set, and a call that finds it set returns
\* nil from ensureIndexTemplate without schema inference and without an engine request
C8_CachedFlagShortCircuits ==
    [][/\ \A d \in Datasets : createdTemplates[d] => createdTemplates'[d]
       /\ \A p \in Procs :
            (PassesCheck(p) /\ createdTemplates[op[p].d]) =>
                /\ pc'[p] = "ensured"
                /\ ensureErr'[p] = NoErr
                /\ ~hist'[p].inferred
                /\ tmplReq' = tmplReq]_vars

C8_Witness ==
    \E p \in Procs :
        /\ PastEnsure(p) /\ hist[p].sawCached /\ ~EnsureFailed(p)
        /\ op[p].recs[1].kind = "map"

\* C9: a document write is issued for a dataset only after a template creation for it
\* succeeded, and a call whose template step failed returns that error with no write
\* and no refresh issued
C9_NoWriteWithoutTemplate ==
    /\ \A d \in written : tmplOK[d] >= 1
    /\ \A p \in Procs :
         (pc[p] = "done" /\ ensureErr[p] # NoErr) =>
             /\ ret[p] = RetErr(<<Err("ensure", 0, 0)>>)
             /\ hist[p].writes = 0
             /\ hist[p].refreshes = 0

C9_Witness ==
    /\ written # {}
    /\ \E p \in Procs : pc[p] = "done" /\ ensureErr[p] # NoErr

\* a result without the "_index" key that Search adds to the hit's source
SourceOf(result) == [f \in DOMAIN result \ {"_index"} |-> result[f]]

\* C10: a Search that directly follows an IndexRecord that returned nil, on the same
\* dataset and with a filter matching only that record, returns exactly that record
C10_RoundTrip ==
    \A p \in Procs :
        ( /\ pc[p] = "done" /\ op[p].name = "Search" /\ ret[p].tag = "results"
          /\ hist[p].prev.valid /\ hist[p].prev.d = op[p].d /\ hist[p].only ) =>
            /\ Len(ret[p].results) = 1
            /\ SourceOf(ret[p].results[1]) = hist[p].prev.doc

\* the dataset a partition belongs to: its name without the trailing day token
DatasetOf(index) == SubSeq(index, 1, Len(index) - 1)

\* the callers whose current call is an IndexRecord that returned nil
IndexedOK == {p \in Procs : op[p].name = "IndexRecord" /\ pc[p] = "done" /\ ret[p] = RetNil}

\* every call made so far is an IndexRecord call that returned nil
OnlySuccessfulIndexRecords ==
    /\ \A n \in OpNames \ {"IndexRecord"} : calls[n] = 0
    /\ calls["IndexRecord"] = Cardinality(IndexedOK)

\* C11: after successful IndexRecord calls only, at most one stored document of a
\* dataset carries a given id, whatever the partition timestamps of the records were
C11_OneDocumentPerId ==
    OnlySuccessfulIndexRecords =>
        \A d \in Datasets, id \in Ids :
            Cardinality({e \in store : DatasetOf(e.index) = d /\ e.id = id}) <= 1

\* an IndexRecord call that has returned
IndexRecordDone(p) == op[p].name = "IndexRecord" /\ pc[p] = "done"

\* C12: when the refresh that follows a successful write of IndexRecord fails, by
\* transport error or by error response, the call returns an error and the written
\* document stays stored
C12_RefreshFailureReported ==
    \A p \in Procs :
        (IndexRecordDone(p) /\ hist[p].refreshes = 1 /\ hist[p].refreshFailed) =>
            /\ ret[p].tag = "err"
            /\ \E e \in store : e.index = hist[p].indexName /\ e.id = op[p].id

\* C13: when serializing the record fails in IndexRecord, the call returns an error and
\* neither an index request nor a refresh request is issued for the record
C13_NoRequestAfterSerializationFailure ==
    \A p \in Procs :
        (IndexRecordDone(p) /\ ensureErr[p] = NoErr /\ ~op[p].recs[1].ser) =>
            /\ ret[p] = RetErr(<<Err("prepare", 0, 0)>>)
            /\ hist[p].writes = 0
            /\ hist[p].refreshes = 0

C13_Witness ==
    \E p \in Procs :
        /\ IndexRecordDone(p) /\ ensureErr[p] = NoErr /\ ~op[p].recs[1].ser
        /\ ret[p].tag = "err"
        /\ tmplOK[op[p].d] = 1

\* C14: when the index request of IndexRecord fails, by transport error or by error
\* response, the call returns an error after that one attempt: no second index request
\* and no refresh request is issued
C14_NoRetryAfterWriteFailure ==
    \A p \in Procs :
        (IndexRecordDone(p) /\ hist[p].writeFailed) =>
            /\ ret[p].tag = "err"
            /\ hist[p].writes = 1
            /\ hist[p].refreshes = 0

C14_Witness ==
    \E p, q \in Procs :
        /\ IndexRecordDone(p) /\ hist[p].writeFailed /\ ret[p] = RetErr(<<Err("status", 0, 0)>>)
        /\ IndexRecordDone(q) /\ hist[q].writeFailed /\ ret[q] = RetErr(<<Err("transport", 0, 0)>>)

\* a SearchDateRange call that has returned
RangeDone(p) == op[p].name = "SearchDateRange" /\ pc[p] = "done"

\* the calendar day of an instant as seen in the location of offset z
DayIn(t, z) == (t.h + z) \div 2

\* the calendar days from start's day through end's day, in start's location
RequestedDays(p) == DayIn(op[p].start, op[p].start.z) .. DayIn(op[p].end, op[p].start.z)

\* the name of a dataset's partition for a day
PartitionOf(d, day) == Append(d, ToString(day))

\* C15: when start's calendar day is not after end's, SearchDateRange queries exactly
\* one partition for each calendar day from start's day through end's day, the end
\* day's included, and no other partition, whatever the times of day
C15_OnePartitionPerDay ==
    \A p \in Procs :
        (RangeDone(p) /\ RequestedDays(p) # {}) =>
            /\ Len(hist[p].target) = Cardinality(RequestedDays(p))
            /\ Range(hist[p].target) = {PartitionOf(op[p].d, n) : n \in RequestedDays(p)}

\* the partition names there can be
Partitions == {getIndexName(d, t) : d \in Datasets, t \in Times} \cup AllIndices

\* C16: the target of a SearchDateRange query covers no partition outside the requested
\* days of the requested dataset, and when start is after end it covers no partition
\* of any dataset
C16_OnlyRequestedPartitions ==
    \A p \in Procs :
        RangeDone(p) =>
            \A index \in Partitions :
                TargetCovers(hist[p].target, index) =>
                    /\ ~After(op[p].start, op[p].end)
                    /\ \E n \in RequestedDays(p) : index = PartitionOf(op[p].d, n)

\* C17: getIndexName(dataset, t) is the dataset name, a hyphen and the UTC calendar day
\* of the instant t, whatever the location t carries
C17_PartitionNameIsUTCDay ==
    \A p \in Procs :
        (RangeDone(p) /\ hist[p].target # <<>>) =>
            hist[p].target[1] = PartitionOf(op[p].d, DayIn(op[p].start, 0))

\* the timestamp a record is to be routed by: its first time.Time field, else the clock
RoutingTime(record, clock) ==
    IF record.kind \in {"struct", "ptr"} /\ record.times # <<>> THEN record.times[1]
    ELSE TimeNow(clock)

SearchDone(p) == op[p].name = "Search" /\ pc[p] = "done"

\* C19: when the engine rejects a Search request because the sort field is unknown,
\* Search issues exactly one retry; after any other response it issues no retry
C19_OneRetryOnUnknownSortField ==
    \A p \in Procs :
        SearchDone(p) =>
            /\ hist[p].sortRejected => hist[p].queries = 2
            /\ ~hist[p].sortRejected => hist[p].queries = 1

\* the clause each type of filter value is to be translated to
ClauseForType ==
    [string |-> "match", strings |-> "terms", number |-> "term", pair |-> "range"]

\* C20: Search translates a string filter to a match clause, a string sequence to terms,
\* a number to term and a bounded pair to range, and for a value of any other type it
\* returns an error without querying the engine
C20_FilterTranslatedByType ==
    \A p \in Procs :
        SearchDone(p) =>
            IF op[p].filter.type \in DOMAIN ClauseForType
            THEN hist[p].clause = ClauseForType[op[p].filter.type]
            ELSE ret[p].tag = "err" /\ hist[p].queries = 0

\* a call whose ensureIndexTemplate ran schema inference to the end
Inferred(p) == hist[p].inferred /\ hist[p].tmplReqs = 1

\* the declared fields of the record the template of p's call is inferred from
SampleFields(p) == Range(op[p].recs[1].fields)

\* C21: schema inference maps every string-typed field to a text type that has an
\* exact-match keyword sub-field
C21_StringIsTextWithKeyword ==
    \A p \in Procs :
        Inferred(p) =>
            \A f \in SampleFields(p) :
                f.type.kind = "String" =>
                    LET m == hist[p].mappings[f.name]
                    IN  /\ m.type = "text"
                        /\ "fields" \in DOMAIN m

IntegerKinds == {"Int", "Int8", "Int16", "Int32", "Int64",
                 "Uint", "Uint8", "Uint16", "Uint32", "Uint64", "Uintptr"}
FloatKinds == {"Float32", "Float64"}
CompositeKinds == {"Struct", "Slice", "Array", "Map", "Ptr"}

\* the engine type each non-string field type is to be mapped to
ExpectedType(t) ==
    CASE t.kind = "Bool" -> "boolean"
      [] t.kind \in IntegerKinds -> "long"
      [] t.kind \in FloatKinds -> "double"
      [] t.kind = "Struct" /\ t.isTime -> "date"
      [] t.kind = "Slice" /\ t.elem = "String" -> "keyword"
      [] OTHER -> "text"

\* C22: schema inference maps a boolean field to boolean, a field of any signed or
\* unsigned integer type to long, of any floating type to double, a time.Time field to
\* date, a slice of strings to keyword and any other composite type to text
C22_NonStringFieldTypes ==
    \A p \in Procs :
        Inferred(p) =>
            \A f \in SampleFields(p) :
                f.type.kind \in {"Bool"} \cup IntegerKinds \cup FloatKinds \cup CompositeKinds =>
                    hist[p].mappings[f.name].type = ExpectedType(f.type)

\* a call that hands schema inference a value that is no struct and no pointer to one
NotAStruct(p) ==
    /\ op[p].name \in {"IndexRecord", "BulkIndex"}
    /\ op[p].recs # <<>>
    /\ op[p].recs[1].kind \notin {"struct", "ptr"}

\* C23: generateMappings fails for every value that is no struct and no pointer to a
\* struct; an IndexRecord or BulkIndex call that reaches it with such a value returns
\* the error, issues no engine request and leaves the completion flag as it is
C23_NonStructIsRejected ==
    /\ [](\A p \in Procs :
            (NotAStruct(p) /\ hist[p].inferred /\ pc[p] = "done") =>
                /\ ret[p] = RetErr(<<Err("ensure", 0, 0)>>)
                /\ hist[p].tmplReqs = 0
                /\ hist[p].writes = 0
                /\ hist[p].refreshes = 0)
    /\ [][\A p \in Procs :
            (NotAStruct(p) /\ PassesCheck(p) /\ ~createdTemplates[op[p].d]) =>
                /\ ensureErr'[p] # NoErr
                /\ createdTemplates' = createdTemplates
                /\ tmplReq' = tmplReq]_vars

C23_Witness ==
    \E p, q \in Procs :
        /\ op[p].name = "IndexRecord" /\ op[p].recs[1].kind = "nil"
        /\ op[q].name = "BulkIndex" /\ op[q].recs[1].kind = "slice"
        /\ \A x \in {p, q} : hist[x].inferred /\ pc[x] = "done" /\ ret[x].tag = "err"
        /\ ~createdTemplates[<<"a">>]

\* a hit's source document together with the name of the partition that owns it
SourceWithIndex(hit) ==
    [f \in DOMAIN hit.doc \cup {"_index"} |-> IF f = "_index" THEN hit.index ELSE hit.doc[f]]

\* C24: the results Search and SearchDateRange return are, one per engine hit and in
\* the engine's order, the hit's source document with the owning partition under _index
C24_ResultsCarrySourceAndIndex ==
    \A p \in Procs :
        ((SearchDone(p) \/ RangeDone(p)) /\ ret[p].tag = "results") =>
            /\ Len(ret[p].results) = Len(hist[p].hits)
            /\ \A i \in DOMAIN hist[p].hits :
                   ret[p].results[i] = SourceWithIndex(hist[p].hits[i])

\* a BulkIndex call with an empty records slice
EmptyBulk(p) == IsBulk(p) /\ op[p].recs = <<>>

\* C25: BulkIndex with an empty records slice returns nil at once, issues no template,
\* bulk or refresh request, and leaves the completion flags as they are
C25_EmptyBulkIsNoOp ==
    /\ [](\A p \in Procs :
            EmptyBulk(p) =>
                /\ pc[p] = "done"
                /\ ret[p] = RetNil
                /\ hist[p].tmplReqs = 0 /\ hist[p].writes = 0 /\ hist[p].refreshes = 0
                /\ wpc[p] = <<>>)
    /\ [][\A p \in Procs :
            (EmptyBulk(p)' /\ calls'["BulkIndex"] = calls["BulkIndex"] + 1
                           /\ pc[p] \in {"idle", "done"} /\ \A q \in Procs \ {p} : op'[q] = op[q] /\ pc'[q] = pc[q]) =>
                /\ createdTemplates' = createdTemplates
                /\ templatesMutex' = templatesMutex
                /\ UNCHANGED engineVars]_vars

C25_Witness ==
    \E p \in Procs, d \in Datasets :
        /\ EmptyBulk(p) /\ op[p].d = d /\ ret[p] = RetNil
        /\ ~createdTemplates[d] /\ tmplReq[d] = 0
        /\ calls["BulkIndex"] = 1

\* C26: ensureIndexTemplate never holds the template mutex while its template-creation
\* request to the engine is in flight
C26_MutexFreeDuringCreate ==
    \A p \in Procs : pc[p] = "tmplInFlight" => templatesMutex # p

\* a set of positions without gaps
Contiguous(S) == \A x \in S, y \in S : \A j \in x..y : j \in S

CreateAnswered(p) == pc[p] = "tmplInFlight" /\ pc'[p] # "tmplInFlight"

\* C28: a dataset's flag is set only after a success response to a template creation for
\* it, and createdTemplates is read and written only by the caller holding the mutex
C28_FlagOnlyAfterSuccessUnderMutex ==
    /\ [](\A d \in Datasets : createdTemplates[d] => tmplOK[d] >= 1)
    /\ [][/\ \A d \in Datasets :
              createdTemplates'[d] # createdTemplates[d] =>
                  \E p \in Procs :
                      /\ CreateAnswered(p) /\ op[p].d = d
                      /\ templatesMutex = p
                      /\ tmplOK'[d] = tmplOK[d] + 1
          /\ \A p \in Procs :
              PassesCheck(p) =>
                  /\ templatesMutex = NoProc
                  /\ templatesMutex' \in {NoProc, p}]_vars

C28_Witness ==
    \E d \in Datasets :
        /\ createdTemplates[d] /\ tmplOK[d] = 1 /\ tmplReq[d] >= 2
        /\ templatesMutex = NoProc

\* C29: a search on a dataset returns documents only from partitions named for that
\* same dataset, also when another dataset's name starts with this name and a hyphen
C29_SearchStaysInDataset ==
    \A p \in Procs :
        (SearchDone(p) /\ ret[p].tag = "results") =>
            \A i \in DOMAIN ret[p].results :
                DatasetOf(ret[p].results[i]["_index"]) = op[p].d

\* a second BulkIndex call on a dataset that returned nil, after a first one that
\* returned nil and stored each of its records
SecondBulkDone(p) ==
    /\ IsBulk(p) /\ hist[p].again
    /\ pc[p] = "done" /\ ret[p] = RetNil
    /\ Cardinality(hist[p].before) = hist[p].first

\* C30: after two successive successful BulkIndex calls on a dataset every record of
\* both calls is stored, no document of the first call being replaced by the second
C30_BothCallsStored ==
    \A p \in Procs :
        SecondBulkDone(p) =>
            /\ hist[p].before \subseteq store
            /\ Cardinality({e \in store : DatasetOf(e.index) = op[p].d})
                 = hist[p].first + Len(op[p].recs)
====
